---- MODULE Spec2Model ----
(***************************************************************************)
(* Model of fix_createclaim_calls.py: a script that walks a fixed list of  *)
(* test files and appends a fourth argument ", 0" to createClaim calls     *)
(* found by a regular expression.                                          *)
(*                                                                         *)
(* A text is a sequence of one-character strings.  The single symbol "C"   *)
(* stands for the twelve characters  createClaim(  (the literal prefix of  *)
(* the pattern, which cannot overlap itself); every other symbol is the    *)
(* character it shows.                                                     *)
(***************************************************************************)
EXTENDS Integers, Sequences, FiniteSets, TLC

VARIABLES disk, exists, linesep, pc, i, fixed_count, content,
          original_content, ret, console, runs,
          disk0, opened_w, faulted

vars == <<disk, exists, linesep, pc, i, fixed_count, content,
          original_content, ret, console, runs, disk0, opened_w, faulted>>

(* ------------------------------ bounds --------------------------------- *)

\* longest text enumerated symbol by symbol
MaxLen == 5

\* longest text enumerated as a concatenation of source fragments
MaxChunks == 3

\* number of times the harness calls fix_createclaim_in_file on one file
MaxRuns == 2

(* ------------------------------ texts ---------------------------------- *)

QUOTE == "\""

\* Python's \s on the characters the model uses
IsSpace(c) == c \in {" ", "\n", "\r", "\t"}

\* Python's \d on the characters the model uses
IsDigit(c) == c \in {"0", "5"}

test_files == << "contracts/test/SkillClaim.t.sol",
                 "contracts/test/DoS.t.sol",
                 "contracts/test/Integration.t.sol",
                 "contracts/test/Performance.t.sol",
                 "contracts/test/LargeDataset.t.sol",
                 "contracts/test/SkillClaim.pagination.t.sol" >>

NumFiles == Len(test_files)

Paths == { test_files[k] : k \in 1..NumFiles }

\* str.count(',')
CommaCount(s) == Cardinality({ k \in 1..Len(s) : s[k] = "," })

\* first position >= j that does not hold white space (Len(t)+1 if none): \s*
SkipSpace(t, j) ==
    CHOOSE e \in j..(Len(t) + 1) :
        /\ \A k \in j..(e - 1) : IsSpace(t[k])
        /\ (e = Len(t) + 1 \/ ~IsSpace(t[e]))

\* first position >= j that holds a quote (Len(t)+1 if none): [^"]*
SkipNonQuote(t, j) ==
    CHOOSE e \in j..(Len(t) + 1) :
        /\ \A k \in j..(e - 1) : t[k] # QUOTE
        /\ (e = Len(t) + 1 \/ t[e] = QUOTE)

\* first position >= j that holds a closing parenthesis: the end of [^)]+
SkipNonParen(t, j) ==
    CHOOSE e \in j..(Len(t) + 1) :
        /\ \A k \in j..(e - 1) : t[k] # ")"
        /\ (e = Len(t) + 1 \/ t[e] = ")")

\* \s*,\s*\d+ matches at position j
Lookahead(t, j) ==
    LET c == SkipSpace(t, j) IN
        /\ c <= Len(t)
        /\ t[c] = ","
        /\ LET d == SkipSpace(t, c + 1) IN d <= Len(t) /\ IsDigit(t[d])

\* a pattern that does not ask for a string literal before the closing
\* parenthesis: createClaim\(([^)]+)\)
CandidateEnd_AnyArgument(t, p, g) ==
    LET e == p + 1 + g IN
    IF e <= Len(t) /\ t[e] = ")" THEN e ELSE 0

\* the part of the pattern after group 1, without the lookahead, with
\* group 1 = t[p+1 .. p+g]: the position of the closing parenthesis, or 0
CandidateEnd(t, p, g) ==
    LET q1 == p + 1 + g IN
    IF ~(q1 <= Len(t) /\ t[q1] = QUOTE) THEN 0
    ELSE LET q2 == SkipNonQuote(t, q1 + 1) IN
         IF q2 > Len(t) THEN 0
         ELSE LET e == SkipSpace(t, q2 + 1) IN
              IF e <= Len(t) /\ t[e] = ")" THEN e ELSE 0

\* the same with the negative lookahead (?!\s*,\s*\d+)
TryGroup1(t, p, g) ==
    LET e == CandidateEnd(t, p, g) IN
    IF e # 0 /\ ~Lookahead(t, e + 1) THEN e ELSE 0

\* the match of the pattern that starts at p: the position of its last
\* character, or 0.  [^)]+ is greedy: the longest group 1 that lets the rest
\* match wins.
MatchEnd(t, p) ==
    IF ~(p <= Len(t) /\ t[p] = "C") THEN 0
    ELSE LET m  == SkipNonParen(t, p + 1) - (p + 1)
             G  == { g \in 1..m : TryGroup1(t, p, g) # 0 }
         IN IF G = {} THEN 0
            ELSE TryGroup1(t, p, CHOOSE g \in G : \A h \in G : h <= g)

\* a guard that lets calls with fewer than three arguments through
replacer_AtMostTwo(full_match) ==
    IF CommaCount(full_match) <= 2
    THEN SubSeq(full_match, 1, Len(full_match) - 1) \o <<",", " ", "0", ")">>
    ELSE full_match

\* a replacement that keeps the closing parenthesis of the match
replacer_KeepParen(full_match) ==
    IF CommaCount(full_match) = 2
    THEN full_match \o <<",", " ", "0", ")">>
    ELSE full_match

replacer(full_match) ==
    IF CommaCount(full_match) = 2
    THEN SubSeq(full_match, 1, Len(full_match) - 1) \o <<",", " ", "0", ")">>
    ELSE full_match

\* re.sub from position pos on: leftmost matches, left to right, not
\* overlapping; characters outside matches are copied
RECURSIVE SubFrom(_, _)
SubFrom(t, pos) ==
    IF pos > Len(t) THEN <<>>
    ELSE LET e == MatchEnd(t, pos) IN
         IF e # 0 THEN replacer(SubSeq(t, pos, e)) \o SubFrom(t, e + 1)
         ELSE <<t[pos]>> \o SubFrom(t, pos + 1)

re_sub(t) == SubFrom(t, 1)

\* the spans <<start, end>> that re.sub hands to the replacer
RECURSIVE SpansFrom(_, _)
SpansFrom(t, pos) ==
    IF pos > Len(t) THEN {}
    ELSE LET e == MatchEnd(t, pos) IN
         IF e # 0 THEN {<<pos, e>>} \cup SpansFrom(t, e + 1)
         ELSE SpansFrom(t, pos + 1)

MatchSpans(t) == SpansFrom(t, 1)

(* ------------------------- text-mode file I/O -------------------------- *)

\* open(path, 'r').read(): universal newlines, "\r\n" and "\r" become "\n"
RECURSIVE ReadFrom(_, _)
ReadFrom(b, k) ==
    IF k > Len(b) THEN <<>>
    ELSE IF b[k] = "\r"
         THEN <<"\n">> \o ReadFrom(b, IF k < Len(b) /\ b[k + 1] = "\n"
                                      THEN k + 2 ELSE k + 1)
         ELSE <<b[k]>> \o ReadFrom(b, k + 1)

ReadText(b) == ReadFrom(b, 1)

\* open(path, 'w').write(s): "\n" becomes os.linesep
RECURSIVE WriteText(_, _)
WriteText(s, sep) ==
    IF s = <<>> THEN <<>>
    ELSE (IF Head(s) = "\n" THEN sep ELSE <<Head(s)>>) \o WriteText(Tail(s), sep)

(* ------------------------------ inputs --------------------------------- *)

Alphabet == {"C", QUOTE, ",", ")", " ", "0"}

\* every text of at most MaxLen symbols
SymbolTexts == UNION { [1..n -> Alphabet] : n \in 0..MaxLen }

\* createClaim("a", "b", "c")
Call3 == <<"C", QUOTE, "a", QUOTE, ",", " ", QUOTE, "b", QUOTE, ",", " ",
           QUOTE, "c", QUOTE, ")">>

\* createClaim("a", "b", "c", 5)
Call4 == <<"C", QUOTE, "a", QUOTE, ",", " ", QUOTE, "b", QUOTE, ",", " ",
           QUOTE, "c", QUOTE, ",", " ", "5", ")">>

\* createClaim("a", "b")
Call2 == <<"C", QUOTE, "a", QUOTE, ",", " ", QUOTE, "b", QUOTE, ")">>

\* createClaim("a", "b", c)
CallVar == <<"C", QUOTE, "a", QUOTE, ",", " ", QUOTE, "b", QUOTE, ",", " ",
             "c", ")">>

\* createClaim("a", "b", "c", "d")
Call4s == <<"C", QUOTE, "a", QUOTE, ",", " ", QUOTE, "b", QUOTE, ",", " ",
            QUOTE, "c", QUOTE, ",", " ", QUOTE, "d", QUOTE, ")">>

\* , 5);   the rest of an enclosing call such as assertEq(createClaim(..), 5);
TailNum == <<",", " ", "5", ")", ";">>

\*  log(")");
LogParen == <<" ", "l", "o", "g", "(", QUOTE, ")", QUOTE, ")", ";">>

\* ; and a line end
EndLine == <<";", "\n">>

Chunks == {Call3, Call4, Call4s, Call2, CallVar, TailNum, LogParen, EndLine}

RECURSIVE Concat(_)
Concat(ss) == IF ss = <<>> THEN <<>> ELSE Head(ss) \o Concat(Tail(ss))

\* every concatenation of at most MaxChunks fragments
ChunkTexts == { Concat(cs) : cs \in UNION { [1..n -> Chunks] : n \in 0..MaxChunks } }

\* the contents a listed file has in a run of main
MainContents == { Call3 \o <<";", "\r", "\n">>, Call4 \o EndLine }

LineSeps == { <<"\n">>, <<"\r", "\n">> }

(* ------------------------------ state ---------------------------------- *)

Msg(kind, path, count) == [kind |-> kind, path |-> path, count |-> count]

cur == test_files[i]

InitCommon ==
    /\ linesep \in LineSeps
    /\ i = 1
    /\ fixed_count = 0
    /\ content = <<>>
    /\ original_content = <<>>
    /\ ret = FALSE
    /\ console = <<>>
    /\ runs = 0
    /\ disk0 = disk
    /\ opened_w = {}
    /\ faulted = FALSE

\* a run of main: each listed file is missing or holds one of MainContents
Init ==
    /\ exists \in SUBSET Paths
    /\ disk \in [Paths -> MainContents \cup {<<>>}]
    /\ \A f \in Paths : f \notin exists <=> disk[f] = <<>>
    /\ pc = "main_loop"
    /\ InitCommon

\* calls of fix_createclaim_in_file on one file holding any bounded text
InitFix ==
    /\ exists = {test_files[1]}
    /\ \E t \in SymbolTexts \cup ChunkTexts :
           disk = [f \in Paths |-> IF f = test_files[1] THEN t ELSE <<>>]
    /\ pc = "idle"
    /\ InitCommon

(* ----------------------- fix_createclaim_in_file ----------------------- *)

\* with open(filepath, 'r') as f: content = f.read(); original_content = content
fix_Read ==
    /\ pc = "fix_read"
    /\ content' = ReadText(disk[cur])
    /\ original_content' = ReadText(disk[cur])
    /\ pc' = "fix_sub"
    /\ UNCHANGED <<disk, exists, linesep, i, fixed_count, ret, console, runs,
                   disk0, opened_w, faulted>>

\* a fixer that swallows the fault, so that main goes on with the next path
fix_ReadFault_Swallowed ==
    /\ pc = "fix_read"
    /\ pc' = "fix_ret"
    /\ faulted' = TRUE
    /\ ret' = FALSE
    /\ UNCHANGED <<disk, exists, linesep, i, fixed_count, content,
                   original_content, console, runs, disk0, opened_w>>

\* open or read raises (permissions, decoding): nothing catches it
fix_ReadFault ==
    /\ pc = "fix_read"
    /\ pc' = "aborted"
    /\ faulted' = TRUE
    /\ UNCHANGED <<disk, exists, linesep, i, fixed_count, content,
                   original_content, ret, console, runs, disk0, opened_w>>

\* content = re.sub(pattern, replacer, content)
fix_Sub ==
    /\ pc = "fix_sub"
    /\ content' = re_sub(content)
    /\ pc' = "fix_cmp"
    /\ UNCHANGED <<disk, exists, linesep, i, fixed_count, original_content,
                   ret, console, runs, disk0, opened_w, faulted>>

\* a fixer that writes the file back whatever the comparison says
NeedsWrite_Always(c, o) == TRUE

\* if content != original_content
NeedsWrite(c, o) == c # o

\* the branch that writes the file, prints "Fixed" and returns True
fix_Write ==
    /\ pc = "fix_cmp"
    /\ NeedsWrite(content, original_content)
    /\ disk' = [disk EXCEPT ![cur] = WriteText(content, linesep)]
    /\ opened_w' = opened_w \cup {cur}
    /\ console' = Append(console, Msg("fixed", cur, 0))
    /\ ret' = TRUE
    /\ pc' = "fix_ret"
    /\ UNCHANGED <<exists, linesep, i, fixed_count, content, original_content,
                   runs, disk0, faulted>>

\* open for writing or write raises: the open failed and the file is as it
\* was, or the open truncated it and any prefix of the new text reached it
fix_WriteFault ==
    /\ pc = "fix_cmp"
    /\ NeedsWrite(content, original_content)
    /\ \E d \in {disk[cur]} \cup
                { SubSeq(WriteText(content, linesep), 1, n) :
                      n \in 0..Len(WriteText(content, linesep)) } :
           disk' = [disk EXCEPT ![cur] = d]
    /\ opened_w' = opened_w \cup {cur}
    /\ pc' = "aborted"
    /\ faulted' = TRUE
    /\ UNCHANGED <<exists, linesep, i, fixed_count, content, original_content,
                   ret, console, runs, disk0>>

\* the else branch: prints "No changes needed" and returns False
fix_NoChange ==
    /\ pc = "fix_cmp"
    /\ ~NeedsWrite(content, original_content)
    /\ console' = Append(console, Msg("nochange", cur, 0))
    /\ ret' = FALSE
    /\ pc' = "fix_ret"
    /\ UNCHANGED <<disk, exists, linesep, i, fixed_count, content,
                   original_content, runs, disk0, opened_w, faulted>>

(* -------------------------------- main --------------------------------- *)

\* for filepath in test_files: if os.path.exists(filepath): call the fixer
MainExists ==
    /\ pc = "main_loop"
    /\ i <= NumFiles
    /\ cur \in exists
    /\ pc' = "fix_read"
    /\ UNCHANGED <<disk, exists, linesep, i, fixed_count, content,
                   original_content, ret, console, runs, disk0, opened_w, faulted>>

\* a loop that ends at the first missing path
MainNotFound_Break ==
    /\ pc = "main_loop"
    /\ i <= NumFiles
    /\ cur \notin exists
    /\ console' = Append(console, Msg("notfound", cur, 0))
    /\ i' = NumFiles + 1
    /\ UNCHANGED <<disk, exists, linesep, pc, fixed_count, content,
                   original_content, ret, runs, disk0, opened_w, faulted>>

\* else: print the not-found warning and go on with the next path
MainNotFound ==
    /\ pc = "main_loop"
    /\ i <= NumFiles
    /\ cur \notin exists
    /\ console' = Append(console, Msg("notfound", cur, 0))
    /\ i' = i + 1
    /\ UNCHANGED <<disk, exists, linesep, pc, fixed_count, content,
                   original_content, ret, runs, disk0, opened_w, faulted>>

\* a loop that counts every existing file, fixed or not
MainAfterFix_CountAll ==
    /\ pc = "fix_ret"
    /\ fixed_count' = fixed_count + 1
    /\ i' = i + 1
    /\ pc' = "main_loop"
    /\ UNCHANGED <<disk, exists, linesep, content, original_content, ret,
                   console, runs, disk0, opened_w, faulted>>

\* if fix_createclaim_in_file(filepath): fixed_count += 1
MainAfterFix ==
    /\ pc = "fix_ret"
    /\ fixed_count' = IF ret THEN fixed_count + 1 ELSE fixed_count
    /\ i' = i + 1
    /\ pc' = "main_loop"
    /\ UNCHANGED <<disk, exists, linesep, content, original_content, ret,
                   console, runs, disk0, opened_w, faulted>>

\* print the summary line after the loop
MainSummary ==
    /\ pc = "main_loop"
    /\ i > NumFiles
    /\ console' = Append(console, Msg("summary", "", fixed_count))
    /\ pc' = "done"
    /\ UNCHANGED <<disk, exists, linesep, i, fixed_count, content,
                   original_content, ret, runs, disk0, opened_w, faulted>>

Next ==
    \/ MainExists
    \/ MainNotFound
    \/ fix_Read
    \/ fix_ReadFault
    \/ fix_Sub
    \/ fix_Write
    \/ fix_WriteFault
    \/ fix_NoChange
    \/ MainAfterFix
    \/ MainSummary

Spec == Init /\ [][Next]_vars

(* ------------- repeated calls of the fixer on a single file ------------ *)

\* fix_createclaim_in_file(test_files[1]) is called
FixCall ==
    /\ pc = "idle"
    /\ runs < MaxRuns
    /\ pc' = "fix_read"
    /\ UNCHANGED <<disk, exists, linesep, i, fixed_count, content,
                   original_content, ret, console, runs, disk0, opened_w, faulted>>

\* the call returns to its caller
FixReturn ==
    /\ pc = "fix_ret"
    /\ runs' = runs + 1
    /\ pc' = "idle"
    /\ UNCHANGED <<disk, exists, linesep, i, fixed_count, content,
                   original_content, ret, console, disk0, opened_w, faulted>>

NextFix ==
    \/ FixCall
    \/ fix_Read
    \/ fix_Sub
    \/ fix_Write
    \/ fix_NoChange
    \/ FixReturn

SpecFix == InitFix /\ [][NextFix]_vars

TypeOK ==
    /\ pc \in {"main_loop", "fix_read", "fix_sub", "fix_cmp", "fix_ret",
               "done", "aborted", "idle"}
    /\ i \in 1..(NumFiles + 1)
    /\ fixed_count \in 0..NumFiles
    /\ exists \subseteq Paths

(* --------------------- vocabulary of the properties -------------------- *)

Last(s) == s[Len(s)]

\* the calls of a text read lexically: from a createClaim( to the first
\* closing parenthesis after it
LexCalls(t) ==
    { c \in (1..Len(t)) \X (1..Len(t)) :
          t[c[1]] = "C" /\ c[2] = SkipNonParen(t, c[1] + 1) }

\* the call p..e ends with  , <digits> )  up to white space
TrailingNumeric(t, p, e) ==
    \E c \in (p + 1)..(e - 1) : \E a \in (c + 1)..(e - 1) : \E b \in a..(e - 1) :
        /\ t[c] = ","
        /\ \A k \in (c + 1)..(a - 1) : IsSpace(t[k])
        /\ \A k \in a..b : IsDigit(t[k])
        /\ \A k \in (b + 1)..(e - 1) : IsSpace(t[k])

\* the call p..e ends with a string literal, as the pattern asks
EndsWithString(t, p, e) == \E g \in 1..(e - p - 1) : CandidateEnd(t, p, g) = e

\* the closing parentheses of the matches that hold exactly two commas
RewrittenEnds(t) ==
    { m[2] : m \in { n \in MatchSpans(t) :
                         CommaCount(SubSeq(t, n[1], n[2])) = 2 } }

\* how far position p of the input has moved in the output
Shift(t, p) == 3 * Cardinality({ e \in RewrittenEnds(t) : e < p })

\* t with ", 0" put in front of the characters at the positions in E
RECURSIVE InsertFrom(_, _, _)
InsertFrom(t, k, E) ==
    IF k > Len(t) THEN <<>>
    ELSE (IF k \in E THEN <<",", " ", "0", t[k]>> ELSE <<t[k]>>)
         \o InsertFrom(t, k + 1, E)

ExpectedOut(t) == InsertFrom(t, 1, RewrittenEnds(t))

\* the state fix_createclaim_in_file leaves a file with bytes d in
Final(d, sep) ==
    LET o == ReadText(d) IN
    IF re_sub(o) # o THEN WriteText(re_sub(o), sep) ELSE d

Modified(k) == disk[test_files[k]] # disk0[test_files[k]]

Kinds(kind) == { k \in 1..Len(console) : console[k].kind = kind }

(* ------------------------------ properties ----------------------------- *)

\* C1: after one pass every createClaim call with exactly three arguments
\* (two commas, the third a string literal, no numeric fourth argument) has
\* ", 0" immediately before its closing parenthesis.
C1_ThreeArgCallGainsZero ==
    pc = "fix_cmp" =>
        \A c \in LexCalls(original_content) :
            LET p == c[1]
                e == c[2]
                o == e + Shift(original_content, e)
            IN (/\ CommaCount(SubSeq(original_content, p, e)) = 2
                /\ EndsWithString(original_content, p, e))
               => /\ o + 3 <= Len(content)
                  /\ SubSeq(content, o, o + 3) = <<",", " ", "0", ")">>

\* C2: a second run on the file the first run left changes nothing: the
\* rewrite of the rewritten text is that text, "No changes needed" is
\* reported, False is returned and the file is not written.
C2_SecondRunNoChange ==
    runs >= 1 =>
        /\ pc = "fix_cmp" => content = original_content
        /\ pc = "fix_ret" => /\ ~ret
                             /\ Last(console) = Msg("nochange", cur, 0)
                             /\ disk[cur] = WriteText(original_content, linesep)

\* C3: a createClaim call that ends with a comma and a numeric literal before
\* its closing parenthesis appears unchanged, character by character, in the
\* output of the rewrite.
C3_TrailingNumericUnchanged ==
    pc = "fix_cmp" =>
        \A c \in LexCalls(original_content) :
            LET p == c[1]
                e == c[2]
                o == p + Shift(original_content, p)
            IN TrailingNumeric(original_content, p, e)
               => /\ e \notin RewrittenEnds(original_content)
                  /\ SubSeq(content, o, o + (e - p))
                         = SubSeq(original_content, p, e)

C3_Witness ==
    /\ pc = "fix_cmp"
    /\ content # original_content
    /\ \E c \in LexCalls(original_content) :
           /\ TrailingNumeric(original_content, c[1], c[2])
           /\ Shift(original_content, c[1]) > 0

\* C4: a matched span that does not hold exactly two commas is returned by
\* the replacer as it is: it appears unchanged in the output of the rewrite.
C4_OtherCommaCountsUnchanged ==
    pc = "fix_cmp" =>
        \A m \in MatchSpans(original_content) :
            LET o == m[1] + Shift(original_content, m[1]) IN
            CommaCount(SubSeq(original_content, m[1], m[2])) # 2
            => /\ SubSeq(content, o, o + (m[2] - m[1]))
                      = SubSeq(original_content, m[1], m[2])
               /\ (m[2] = Len(original_content)
                       => Len(content) = o + (m[2] - m[1]))

C4_Witness ==
    /\ pc = "fix_cmp"
    /\ content # original_content
    /\ \E m \in MatchSpans(original_content) :
           /\ CommaCount(SubSeq(original_content, m[1], m[2])) = 1
           /\ m[2] = Len(original_content)
    /\ \E m \in MatchSpans(original_content) :
           CommaCount(SubSeq(original_content, m[1], m[2])) = 3

\* C5: the file is opened for writing exactly when the rewritten content
\* differs from the content read.  Unchanged: the file is as it was, "No
\* changes needed" is reported and False returned.  Changed: the new content
\* is in the file, "Fixed" is reported and True returned.
C5_WriteIffChanged ==
    /\ pc \in {"fix_read", "fix_sub", "fix_cmp"} => cur \notin opened_w
    /\ pc = "aborted" /\ cur \in opened_w => content # original_content
    /\ pc = "fix_ret" =>
           IF content # original_content
           THEN /\ cur \in opened_w
                /\ disk[cur] = WriteText(content, linesep)
                /\ ret
                /\ Last(console) = Msg("fixed", cur, 0)
           ELSE /\ cur \notin opened_w
                /\ disk[cur] = disk0[cur]
                /\ ~ret
                /\ Last(console) = Msg("nochange", cur, 0)

C5_Witness ==
    /\ pc = "fix_ret"
    /\ i = 2
    /\ content = original_content
    /\ test_files[1] \in opened_w
    /\ Kinds("fixed") = {1}

\* C6: a listed path that does not exist gets a not-found warning, is not
\* read, created or written, and the paths after it are still processed in
\* list order; the run never stops at a missing file.
C6_MissingFileSkipped ==
    /\ Len(console) >= i - 1
    /\ \A k \in 1..NumFiles :
           test_files[k] \notin exists =>
               /\ disk[test_files[k]] = <<>>
               /\ test_files[k] \notin opened_w
               /\ k < i => console[k] = Msg("notfound", test_files[k], 0)
    /\ pc \in {"fix_read", "fix_sub", "fix_cmp", "fix_ret", "aborted"}
           => cur \in exists
    /\ \A k \in 1..(i - 1) : console[k].path = test_files[k]
    /\ pc = "done" => /\ i = NumFiles + 1
                      /\ Len(console) = NumFiles + 1

C6_Witness ==
    /\ pc = "done"
    /\ test_files[1] \notin exists
    /\ test_files[2] \in exists
    /\ test_files[3] \notin exists
    /\ console[2].kind = "fixed"
    /\ console[NumFiles].kind = "nochange"

\* C7: at every turn of the loop fixed_count is the number of files modified
\* so far, which is the number of paths reported as fixed; paths reported
\* unchanged or not found are not modified; the summary line carries that
\* number.
C7_CountIsModifiedFiles ==
    /\ pc \in {"main_loop", "done"} =>
           /\ fixed_count = Cardinality({ k \in 1..NumFiles : Modified(k) })
           /\ fixed_count = Cardinality(Kinds("fixed"))
    /\ \A k \in 1..(i - 1) :
           console[k].kind \in {"nochange", "notfound"} => ~Modified(k)
    /\ pc = "done" => Last(console) = Msg("summary", "", fixed_count)

C7_Witness ==
    /\ pc = "done"
    /\ fixed_count = 2
    /\ Kinds("nochange") # {}
    /\ Kinds("notfound") # {}

\* C8: files are processed one at a time in list order: every file before
\* the current one is in its final state and every file after it is as it
\* was; after an I/O fault the run has stopped and no summary line is
\* printed.
C8_FaultLeavesPrefixDone ==
    /\ \A k \in 1..NumFiles :
           /\ k < i => disk[test_files[k]] =
                          IF test_files[k] \in exists
                          THEN Final(disk0[test_files[k]], linesep)
                          ELSE disk0[test_files[k]]
           /\ k > i => disk[test_files[k]] = disk0[test_files[k]]
    /\ faulted => /\ pc = "aborted"
                  /\ Kinds("summary") = {}

C8_Witness ==
    /\ pc = "aborted"
    /\ i = 3
    /\ Modified(1)
    /\ Modified(3)
    /\ disk[test_files[3]] # Final(disk0[test_files[3]], linesep)
    /\ test_files[4] \in exists

\* C9: the rewrite changes every match that holds two commas in one pass
\* and nothing else: the output is the input with ", 0" put in front of the
\* closing parenthesis of each such match, and a file in which a call was
\* rewritten is reported as fixed.
C9_OnlyInsertions ==
    /\ pc = "fix_cmp" => content = ExpectedOut(original_content)
    /\ pc = "fix_ret" /\ RewrittenEnds(original_content) # {}
           => /\ ret
              /\ Last(console) = Msg("fixed", cur, 0)
              /\ Len(content) = Len(original_content)
                                  + 3 * Cardinality(RewrittenEnds(original_content))

\* two calls rewritten, one call with a numeric fourth argument untouched
C9_Witness ==
    /\ pc = "fix_ret"
    /\ runs = 0
    /\ Cardinality(RewrittenEnds(original_content)) = 2
    /\ Cardinality({ c \in LexCalls(original_content) :
                        TrailingNumeric(original_content, c[1], c[2]) }) = 1
    /\ Cardinality(LexCalls(original_content)) = 3
    /\ ret

\* C10: a candidate whose closing parenthesis is followed by a comma and a
\* number is not rewritten, and no call with just three arguments is left out
\* for that reason: one that is left out already ends with a numeric argument.
C10_LookaheadSkipsOnlyFixedCalls ==
    pc = "fix_cmp" =>
        \A p \in 1..Len(original_content) : \A g \in 1..Len(original_content) :
            LET e == IF /\ original_content[p] = "C"
                        /\ p + g < SkipNonParen(original_content, p + 1)
                     THEN CandidateEnd(original_content, p, g) ELSE 0
            IN (e # 0 /\ Lookahead(original_content, e + 1))
               => /\ e \notin RewrittenEnds(original_content)
                  /\ CommaCount(SubSeq(original_content, p, e)) = 2
                         => TrailingNumeric(original_content, p, e)

====
